---- MODULE Spec2Model ----
(***************************************************************************)
(* A state-machine model of ecgtk.py: the QRSDetector (construction, the   *)
(* single-lead detection run qrs_detect with peakDetect / checkPeaks, the  *)
(* multi-lead reconciliation multilead_peak_match) and the time-formatting *)
(* helpers _format_time_wfdb / _sample_to_time.                            *)
(*                                                                         *)
(* Conventions.                                                            *)
(*  - Sample indices are the 0-based indices of the Python code; a Python  *)
(*    array is a TLA+ sequence and At(a, i) reads a[i].                    *)
(*  - Amplitudes are whole numbers here, so every mean, the threshold and  *)
(*    every comparison of the code is exact in binary floating point and   *)
(*    is modelled by the same comparison cross-multiplied into integers.   *)
(*    The variable threshold holds 128 times the code's self.threshold     *)
(*    (8 slots * 16, the denominator of 0.3125 = 5/16).                    *)
(*  - The band-pass filter, the derivative and the moving-window integral  *)
(*    are numerical code outside this model: a recording is given by the   *)
(*    integrated trace (int_ecg) of each of its leads.                     *)
(***************************************************************************)
EXTENDS Integers, Sequences, FiniteSets, TLC

VARIABLES
    ecgdata,             \* __init__: shape of the array passed in
    samplingrate,        \* self.samplingrate
    points,              \* self.points
    leads,               \* self.leads
    data,                \* self.data, each lead given by its integrated trace
    qrslead,             \* argument of the current / last qrs_detect call
    int_ecg,             \* self.int_ecg
    signal_peak_buffer,  \* self.signal_peak_buffer
    noise_peak_buffer,   \* self.noise_peak_buffer
    rr_buffer,           \* self.rr_buffer
    threshold,           \* self.threshold, times 128
    peaks,               \* checkPeaks: the local list peaks
    index,               \* checkPeaks: the loop variable
    QRSpeaks,            \* self.QRSpeaks
    calls,               \* number of qrs_detect calls made on this detector
    qrspeaks,            \* qrs_detect_multiple_leads: the per-lead detections
    qrspeaks_array,      \* the beat x lead matrix, peaks in multilead_peak_match
    current_peak,        \* multilead_peak_match: the row being reconciled
    unique_peaks,        \* multilead_peak_match: the consensus sequence
    iteration,           \* multilead_peak_match: loop iterations so far, mod 2
    time_call,           \* the time-formatting call made: function and argument
    time_string,         \* the string it returned
    pc                   \* position of the running operation

detvars == <<samplingrate, points, leads, data, qrslead, int_ecg,
             signal_peak_buffer, noise_peak_buffer, rr_buffer, threshold,
             peaks, index, QRSpeaks, calls>>

mlvars == <<qrspeaks, qrspeaks_array, current_peak, unique_peaks, iteration>>

tvars == <<time_call, time_string>>

vars == <<ecgdata, detvars, mlvars, tvars, pc>>

-----------------------------------------------------------------------------
(* Bounds of the model and constants of the program *)

\* number of qrs_detect calls made on one detector
MaxCalls == 2

\* the 8 slots of each statistics buffer, and the 8 seconds they are seeded from
BufLen == 8

-----------------------------------------------------------------------------
(* Python helpers *)

\* a[i] for a 0-based index i
At(a, i) == a[i + 1]

RECURSIVE SumSeq(_)
SumSeq(s) == IF s = <<>> THEN 0 ELSE Head(s) + SumSeq(Tail(s))

\* max(a[lo:hi]) of a non-empty slice, clipped to the array as Python slices are
MaxSlice(a, lo, hi) ==
    LET last == IF hi < Len(a) THEN hi ELSE Len(a)
        values == {a[i] : i \in (lo + 1)..last}
    IN  CHOOSE x \in values : \A y \in values : y <= x

\* int(n / d) for d > 0: numpy's and Python's conversion of a float to an
\* integer truncates toward zero
TruncDiv(n, d) == IF n >= 0 THEN n \div d ELSE -((-n) \div d)

-----------------------------------------------------------------------------
(* The recordings the model is run on.  An integrated trace is a zero      *)
(* baseline (or a ramp) carrying one-sample pulses at the indices PulseAt, *)
(* the k-th with an amplitude drawn from PulseAmps[k].                     *)

Rates == {50, 51}

PulseAt == <<1, 8, 12, 80, 160, 180, 191, 300>>

PulseAmps == << {0, 16}, {0, 3}, {0, 2, 16}, {0, 16}, {16}, {0, 1, 2},
                {0, 16}, {16} >>

Trains ==
    { <<a1, a2, a3, a4, a5, a6, a7, a8>> :
        a1 \in PulseAmps[1], a2 \in PulseAmps[2], a3 \in PulseAmps[3],
        a4 \in PulseAmps[4], a5 \in PulseAmps[5], a6 \in PulseAmps[6],
        a7 \in PulseAmps[7], a8 \in PulseAmps[8] }

NoPulse == <<0, 0, 0, 0, 0, 0, 0, 0>>

Flat == [ramp |-> 0, amp |-> NoPulse]

Ramp == [ramp |-> 1, amp |-> NoPulse]

\* a single pulse: one strict local maximum
Single == [ramp |-> 0, amp |-> <<0, 0, 0, 0, 16, 0, 0, 0>>]

FirstLeads == {[ramp |-> 0, amp |-> a] : a \in Trains} \cup {Flat, Ramp, Single}

OtherLeads == {[ramp |-> 0, amp |-> <<16, 0, 0, 16, 16, 2, 0, 16>>]}

\* the trace a with the k-th and all later pulses of amp set on it
RECURSIVE WithPulses(_, _, _)
WithPulses(a, amp, k) ==
    IF k > Len(PulseAt) THEN a
    ELSE WithPulses([a EXCEPT ![PulseAt[k] + 1] = @ + amp[k]], amp, k + 1)

\* the integrated trace of a lead: one sample shorter than the recording
\* (scipy.diff), the moving-window integral keeping the length
Integrated(lead, n) ==
    WithPulses([i \in 1..(n - 1) |-> lead.ramp * (i - 1)], lead.amp, 1)

-----------------------------------------------------------------------------
(* Parts of the state an operation does not use *)

NoDetection ==
    /\ qrslead = 0
    /\ int_ecg = <<>>
    /\ signal_peak_buffer = <<>>
    /\ noise_peak_buffer = <<>>
    /\ rr_buffer = <<>>
    /\ threshold = 0
    /\ peaks = <<>>
    /\ index = 0
    /\ QRSpeaks = <<>>
    /\ calls = 0

NoReconciliation ==
    /\ qrspeaks = <<>>
    /\ qrspeaks_array = <<>>
    /\ current_peak = 0
    /\ unique_peaks = <<>>
    /\ iteration = 0

NoTimeCall ==
    /\ time_call = <<>>
    /\ time_string = <<>>

-----------------------------------------------------------------------------
(* QRSDetector.peakDetect *)

\* minimumRR = self.samplingrate * 0.2, compared with a distance in samples:
\* d <= minimumRR
WithinMinimumRR(d, fs) == 5 * d <= fs

\* BeyondMinimumRR without the refractory distance: any later maximum
\* promotes the candidate
BeyondAnyDistance(d, fs) == d > 0

\* d > minimumRR
BeyondMinimumRR(d, fs) == 5 * d > fs

\* peak_indices: the strict local maxima, i in range(1, len(ecg) - 1)
PeakIndices(ecg) ==
    SelectSeq([k \in 1..(Len(ecg) - 2) |-> k],
              LAMBDA i : ecg[i] < ecg[i + 1] /\ ecg[i + 1] > ecg[i + 2])

\* the loop over zip(peak_indices, peak_amplitudes); committed is the list
\* unique_peaks, returned as it is when the loop ends: the candidate then held
\* is not appended
RECURSIVE UniquePeaks(_, _, _, _, _, _)
UniquePeaks(ecg, rest, peak_candidate_index, peak_candidate_amplitude, committed, fs) ==
    IF rest = <<>> THEN committed
    ELSE LET peak_index == Head(rest)
             peak_amplitude == At(ecg, peak_index)
         IN  IF /\ WithinMinimumRR(peak_index - peak_candidate_index, fs)
                /\ peak_amplitude > peak_candidate_amplitude
             THEN UniquePeaks(ecg, Tail(rest), peak_index, peak_amplitude,
                              committed, fs)
             ELSE IF BeyondMinimumRR(peak_index - peak_candidate_index, fs)
             THEN UniquePeaks(ecg, Tail(rest), peak_index, peak_amplitude,
                              Append(committed, peak_candidate_index), fs)
             ELSE UniquePeaks(ecg, Tail(rest), peak_candidate_index,
                              peak_candidate_amplitude, committed, fs)

\* peak_indices[0] raises IndexError when there is no strict local maximum
peakDetectRaises(ecg) == PeakIndices(ecg) = <<>>

peakDetect(ecg, fs) ==
    LET peak_indices == PeakIndices(ecg)
    IN  UniquePeaks(ecg, peak_indices, peak_indices[1],
                    At(ecg, peak_indices[1]), <<>>, fs)

-----------------------------------------------------------------------------
(* The statistics buffers and the threshold *)

\* 128 * (noise + 0.3125 * (signal - noise)), noise and signal the means of
\* the 8 slots of the two amplitude buffers
updateThreshold(signal_buffer, noise_buffer) ==
    16 * SumSeq(noise_buffer)
        + 5 * (SumSeq(signal_buffer) - SumSeq(noise_buffer))

\* initializeBuffers seeding the signal-peak buffer only once, leaving one that
\* already exists as it is
initializeBuffersOnce(prev, ecg, onesec) ==
    [signal_peak_buffer |->
         IF prev.signal_peak_buffer = <<>>
         THEN [start \in 1..BufLen |->
                  MaxSlice(ecg, (start - 1) * onesec, start * onesec)]
         ELSE prev.signal_peak_buffer,
     noise_peak_buffer |-> [k \in 1..BufLen |-> 0],
     rr_buffer |-> [k \in 1..BufLen |-> 1]]

\* the buffers set by _initializeBuffers; prev is the detector's statistics
\* state before the call
initializeBuffers(prev, ecg, onesec) ==
    [signal_peak_buffer |->
         [start \in 1..BufLen |->
             MaxSlice(ecg, (start - 1) * onesec, start * onesec)],
     noise_peak_buffer |-> [k \in 1..BufLen |-> 0],
     rr_buffer |-> [k \in 1..BufLen |-> 1]]

\* the statistics and heartbeat list one classification works on
Stats == [QRSpeaks |-> QRSpeaks,
          signal_peak_buffer |-> signal_peak_buffer,
          noise_peak_buffer |-> noise_peak_buffer,
          rr_buffer |-> rr_buffer]

acceptasQRS(st, peak, amplitude) ==
    LET q == Append(st.QRSpeaks, peak)
    IN  [st EXCEPT
            !.QRSpeaks = q,
            !.signal_peak_buffer = Append(Tail(@), amplitude),
            !.rr_buffer = IF Len(q) > 1
                          THEN Append(Tail(@), q[Len(q)] - q[Len(q) - 1])
                          ELSE @]

\* for comparison: a noise-peak buffer that takes the new value at the front
\* and drops its last value
acceptasNoiseNewestFirst(st, peak, amplitude) ==
    [st EXCEPT !.noise_peak_buffer = <<amplitude>> \o SubSeq(@, 1, Len(@) - 1)]

acceptasNoise(st, peak, amplitude) ==
    [st EXCEPT !.noise_peak_buffer = Append(Tail(@), amplitude)]

-----------------------------------------------------------------------------
(* QRSDetector.checkPeaks *)

\* amp_ratio > 1, amp_ratio = amplitude / self.threshold
RatioAboveOne(amplitude, thr) == 128 * amplitude > thr

\* amp_ratio < 0.5
RatioBelowHalf(amplitude, thr) == 256 * amplitude < thr

\* lastQRS_to_this_peak > 0.36, with
\* lastQRS_to_this_peak = (peak - self.QRSpeaks[-1]) / self.samplingrate
LateEnough(lastQRS_to_this_peak_samples, fs) ==
    100 * lastQRS_to_this_peak_samples > 36 * fs

\* NextFarEnough without the comparison
NextAlwaysFarEnough(lastQRS_to_next_peak, rr) == TRUE

\* lastQRS_to_next_peak > 1.5 * meanrr, meanrr the mean of the 8 RR slots
NextFarEnough(lastQRS_to_next_peak, rr) ==
    16 * lastQRS_to_next_peak > 3 * SumSeq(rr)

\* the body of the loop of checkPeaks for one index: thr is self.threshold,
\* peak = peaks[index], next = peaks[index + 1]
checkPeak(st, thr, fs, peak, next, amplitude) ==
    IF RatioAboveOne(amplitude, thr)
    THEN acceptasQRS(st, peak, amplitude)
    ELSE IF RatioBelowHalf(amplitude, thr)
    THEN acceptasNoise(st, peak, amplitude)
    ELSE LET last == st.QRSpeaks[Len(st.QRSpeaks)]
         IN  IF /\ LateEnough(peak - last, fs)
                /\ NextFarEnough(next - last, st.rr_buffer)
             THEN acceptasQRS(st, peak, amplitude)
             ELSE acceptasNoise(st, peak, amplitude)

\* self.QRSpeaks -= 40 * (self.samplingrate / 1000): the difference is
\* computed in floating point and stored back into the integer array, which
\* truncates it toward zero
Compensate(q, fs) ==
    [i \in 1..Len(q) |-> TruncDiv(1000 * q[i] - 40 * fs, 1000)]

-----------------------------------------------------------------------------
(* qrs_detect as one computation *)

\* the loop of checkPeaks from index i on; pks is the augmented list peaks
RECURSIVE checkPeaks(_, _, _, _, _, _)
checkPeaks(st, thr, fs, ecg, pks, i) ==
    IF i >= Len(pks) - 1 THEN st
    ELSE checkPeaks(checkPeak(st, thr, fs, At(pks, i), At(pks, i + 1),
                              At(ecg, At(pks, i))),
                    thr, fs, ecg, pks, i + 1)

\* the statistics of a detector on which qrs_detect has not been called
NoStats == [QRSpeaks |-> <<>>, signal_peak_buffer |-> <<>>,
            noise_peak_buffer |-> <<>>, rr_buffer |-> <<>>]

\* qrs_detect on the integrated trace ecg by a detector whose statistics are
\* prev: whether it raises, and the array it returns
qrs_detect(prev, ecg, fs) ==
    LET b == initializeBuffers(prev, ecg, fs)
        thr == updateThreshold(b.signal_peak_buffer, b.noise_peak_buffer)
    IN  IF peakDetectRaises(ecg)
        THEN [raised |-> TRUE, value |-> <<>>]
        ELSE LET pks == Append(peakDetect(ecg, fs), Len(ecg) - 1)
                 st == checkPeaks([QRSpeaks |-> <<0>>,
                                   signal_peak_buffer |-> b.signal_peak_buffer,
                                   noise_peak_buffer |-> b.noise_peak_buffer,
                                   rr_buffer |-> b.rr_buffer],
                                  thr, fs, ecg, pks, 0)
             IN  [raised |-> FALSE,
                  value |-> Compensate(Tail(st.QRSpeaks), fs)]

-----------------------------------------------------------------------------
(* The detection run, qrs_detect, step by step *)

\* qrs_detect(qrslead) up to and including _initializeBuffers: a call may be
\* made on a new detector, after a call that returned and after one that
\* raised
qrs_detect_call(lead) ==
    /\ pc \in {"ready", "done", "error"}
    /\ calls < MaxCalls
    /\ int_ecg' = Integrated(At(data, lead), points)
    /\ LET b == initializeBuffers(Stats, int_ecg', samplingrate)
       IN  /\ signal_peak_buffer' = b.signal_peak_buffer
           /\ noise_peak_buffer' = b.noise_peak_buffer
           /\ rr_buffer' = b.rr_buffer
           /\ threshold' = updateThreshold(b.signal_peak_buffer,
                                            b.noise_peak_buffer)
    /\ qrslead' = lead
    /\ calls' = calls + 1
    /\ pc' = "peakDetect"
    /\ UNCHANGED <<ecgdata, mlvars, tvars, samplingrate, points, leads, data, peaks, index,
                   QRSpeaks>>

\* peaks = self.peakDetect(self.int_ecg), which raises IndexError on a trace
\* without a strict local maximum
peakDetect_call ==
    /\ pc = "peakDetect"
    /\ IF peakDetectRaises(int_ecg)
       THEN /\ pc' = "error"
            /\ UNCHANGED peaks
       ELSE /\ peaks' = peakDetect(int_ecg, samplingrate)
            /\ pc' = "peaks"
    /\ UNCHANGED <<ecgdata, mlvars, tvars, samplingrate, points, leads, data, qrslead,
                   int_ecg, signal_peak_buffer, noise_peak_buffer, rr_buffer,
                   threshold, index, QRSpeaks, calls>>

\* checkPeaks, before its loop
checkPeaks_enter ==
    /\ pc = "peaks"
    /\ QRSpeaks' = <<0>>
    /\ peaks' = Append(peaks, Len(int_ecg) - 1)
    /\ index' = 0
    /\ pc' = "checkPeaks"
    /\ UNCHANGED <<ecgdata, mlvars, tvars, samplingrate, points, leads, data, qrslead,
                   int_ecg, signal_peak_buffer, noise_peak_buffer, rr_buffer,
                   threshold, calls>>

\* one iteration of the loop of checkPeaks
checkPeaks_step ==
    /\ pc = "checkPeaks"
    /\ index < Len(peaks) - 1
    /\ LET peak == At(peaks, index)
           st == checkPeak(Stats, threshold, samplingrate, peak,
                           At(peaks, index + 1), At(int_ecg, peak))
       IN  /\ QRSpeaks' = st.QRSpeaks
           /\ signal_peak_buffer' = st.signal_peak_buffer
           /\ noise_peak_buffer' = st.noise_peak_buffer
           /\ rr_buffer' = st.rr_buffer
    /\ index' = index + 1
    /\ UNCHANGED <<ecgdata, mlvars, tvars, samplingrate, points, leads, data, qrslead,
                   int_ecg, threshold, peaks, calls, pc>>

\* checkPeaks, after its loop: self.QRSpeaks = scipy.array(self.QRSpeaks[1:])
checkPeaks_exit ==
    /\ pc = "checkPeaks"
    /\ index = Len(peaks) - 1
    /\ QRSpeaks' = Tail(QRSpeaks)
    /\ pc' = "classified"
    /\ UNCHANGED <<ecgdata, mlvars, tvars, samplingrate, points, leads, data, qrslead,
                   int_ecg, signal_peak_buffer, noise_peak_buffer, rr_buffer,
                   threshold, peaks, index, calls>>

\* the delay compensation and the return of qrs_detect
qrs_detect_return ==
    /\ pc = "classified"
    /\ QRSpeaks' = Compensate(QRSpeaks, samplingrate)
    /\ pc' = "done"
    /\ UNCHANGED <<ecgdata, mlvars, tvars, samplingrate, points, leads, data, qrslead,
                   int_ecg, signal_peak_buffer, noise_peak_buffer, rr_buffer,
                   threshold, peaks, index, calls>>

\* a constructed detector on a valid recording of two leads, 8 seconds long
Init ==
    /\ samplingrate \in Rates
    /\ points = BufLen * samplingrate
    /\ leads = 2
    /\ data \in {<<l0, l1>> : l0 \in FirstLeads, l1 \in OtherLeads}
    /\ ecgdata = [ndim |-> 2, rows |-> points, cols |-> leads]
    /\ NoDetection
    /\ NoReconciliation
    /\ NoTimeCall
    /\ pc = "ready"

Next ==
    \/ \E lead \in 0..(leads - 1) : qrs_detect_call(lead)
    \/ peakDetect_call
    \/ checkPeaks_enter
    \/ checkPeaks_step
    \/ checkPeaks_exit
    \/ qrs_detect_return

Spec == Init /\ [][Next]_vars

-----------------------------------------------------------------------------
(* QRSDetector.__init__ *)

\* largest numbers of rows and of columns of the arrays a detector is
\* constructed on
MaxRows == 20

MaxCols == 3

CtorRates == {1, 2}

\* self.data.shape once a vector has been made a column array
DataShape(a) == IF a.ndim = 1 THEN <<a.rows, 1>> ELSE <<a.rows, a.cols>>

\* self.leads > self.points
MoreColumnsThanRows(npoints, nleads) == nleads > npoints

\* self.points <= self.samplingrate * 8
NotLongerThan8Seconds(npoints, fs) == npoints <= fs * BufLen

\* self.points < self.samplingrate * 8
LessThan8Seconds(npoints, fs) == npoints < fs * BufLen

\* QRSDetector(ecgdata, samplingrate): either check raises ValueError
QRSDetector_init ==
    /\ pc = "new"
    /\ points' = DataShape(ecgdata)[1]
    /\ leads' = DataShape(ecgdata)[2]
    /\ pc' = IF MoreColumnsThanRows(points', leads') THEN "ValueError"
             ELSE IF LessThan8Seconds(points', samplingrate) THEN "ValueError"
             ELSE "ready"
    /\ UNCHANGED <<ecgdata, mlvars, tvars, samplingrate, data, qrslead,
                   int_ecg, signal_peak_buffer, noise_peak_buffer, rr_buffer,
                   threshold, peaks, index, QRSpeaks, calls>>

\* a vector or a two-dimensional array about to be passed to the constructor
InitCtor ==
    /\ ecgdata \in [ndim : {2}, rows : 0..MaxRows, cols : 0..MaxCols]
                       \cup [ndim : {1}, rows : 0..MaxRows, cols : {0}]
    /\ samplingrate \in CtorRates
    /\ points = 0
    /\ leads = 0
    /\ data = <<>>
    /\ NoDetection
    /\ NoReconciliation
    /\ NoTimeCall
    /\ pc = "new"

NextCtor == QRSDetector_init

SpecCtor == InitCtor /\ [][NextCtor]_vars

-----------------------------------------------------------------------------
(* _format_time_wfdb and QRSDetector._sample_to_time *)

Digits == <<"0", "1", "2", "3", "4", "5", "6", "7", "8", "9">>

\* "%0<width>d" % n, as a sequence of characters
RECURSIVE ZeroPadded(_, _)
ZeroPadded(n, width) ==
    IF width = 0 THEN <<>>
    ELSE Append(ZeroPadded(n \div 10, width - 1), Digits[(n % 10) + 1])

\* datetime.time(hr, minute, sec, microsecond).isoformat(): the fraction is
\* written only when the microseconds are not zero
isoformat(hr, minute, sec, microsecond) ==
    ZeroPadded(hr, 2) \o <<":">> \o ZeroPadded(minute, 2) \o <<":">>
        \o ZeroPadded(sec, 2)
        \o (IF microsecond # 0
            THEN <<".">> \o ZeroPadded(microsecond, 6)
            ELSE <<>>)

\* s[:-3]
DropLast3(s) == SubSeq(s, 1, Len(s) - 3)

format_time_wfdb(ms) ==
    LET hr == (ms \div 3600000) % 24
        minute == (ms \div 60000) % 60
        sec == (ms \div 1000) % 60
        msec == ms % 1000
    IN  DropLast3(isoformat(hr, minute, sec, msec * 1000))

sample_to_time(sample, fs) ==
    LET time_ms == TruncDiv(sample * 1000, fs)
        hr == (time_ms \div 3600000) % 24
        min == (time_ms \div 60000) % 60
        sec == (time_ms \div 1000) % 60
        ms == time_ms % 1000
    IN  DropLast3(isoformat(hr, min, sec, ms * 1000))

\* the times, in ms, the formatting is run on: hours up to and beyond the
\* wrap at 24, whole seconds and fractions
TimesMs ==
    { h * 3600000 + m * 60000 + sc * 1000 + f :
        h \in {0, 2, 23, 24, 25}, m \in {0, 2, 59}, sc \in {0, 2, 59},
        f \in {0, 2, 50, 999} }

\* the sample numbers _sample_to_time is run on, at 250 samples per second
Samples == {0, 1, 125, 250, 251, 15000, 900000, 900251}

format_time_wfdb_call ==
    /\ pc = "time"
    /\ time_call[1] = "_format_time_wfdb"
    /\ time_string' = format_time_wfdb(time_call[2])
    /\ pc' = "formatted"
    /\ UNCHANGED <<ecgdata, detvars, mlvars, time_call>>

sample_to_time_call ==
    /\ pc = "time"
    /\ time_call[1] = "_sample_to_time"
    /\ time_string' = sample_to_time(time_call[2], samplingrate)
    /\ pc' = "formatted"
    /\ UNCHANGED <<ecgdata, detvars, mlvars, time_call>>

InitTime ==
    /\ time_call \in {<<"_format_time_wfdb", ms>> : ms \in TimesMs}
                         \cup {<<"_sample_to_time", sample>> : sample \in Samples}
    /\ time_string = <<>>
    /\ samplingrate = 250
    /\ points = BufLen * samplingrate
    /\ leads = 1
    /\ data = <<>>
    /\ ecgdata = [ndim |-> 1, rows |-> points, cols |-> 0]
    /\ NoDetection
    /\ NoReconciliation
    /\ pc = "time"

NextTime == format_time_wfdb_call \/ sample_to_time_call

SpecTime == InitTime /\ [][NextTime]_vars

-----------------------------------------------------------------------------
(* qrs_detect_multiple_leads and multilead_peak_match.  The run starts     *)
(* after the loop over the leads: qrspeaks holds what qrs_detect returned  *)
(* for each lead, a strictly increasing list of whole sample indices more  *)
(* than the refractory distance apart.  Each lead sees every heartbeat of  *)
(* BeatAt or misses it, and places it up to Jitter samples late.  Every    *)
(* lead has at least one detection, so the matrix is an integer array.     *)

BeatAt == <<100, 200, 300>>

Jitter == {0, 3, 12}

SmallJitter == {0, 12}

RECURSIVE Detected(_, _, _)
Detected(seen, late, k) ==
    IF k > Len(BeatAt) THEN <<>>
    ELSE (IF k \in seen THEN <<BeatAt[k] + late[k]>> ELSE <<>>)
             \o Detected(seen, late, k + 1)

Detections(jitter) ==
    {Detected(seen, late, 1) :
        seen \in (SUBSET DOMAIN BeatAt) \ {{}}, late \in [DOMAIN BeatAt -> jitter]}

LeadDetections ==
    {<<a, b>> : a \in Detections(Jitter), b \in Detections(SmallJitter)}
        \cup {<<a, b, c>> : a \in Detections(Jitter),
                            b \in Detections(SmallJitter),
                            c \in Detections({0})}

\* shortvec followed by l - len(shortvec) zeros
zeropad(shortvec, l) == shortvec \o [i \in 1..(l - Len(shortvec)) |-> 0]

MaxLength(q) ==
    CHOOSE n \in {Len(q[c]) : c \in DOMAIN q} : \A c \in DOMAIN q : Len(q[c]) <= n

\* scipy.array(qrspeaks).transpose(): row r holds detection r of every lead
Transposed(q) ==
    [r \in 1..Len(q[1]) |-> [c \in DOMAIN q |-> q[c][r]]]

RowMax(all_values) ==
    CHOOSE v \in {all_values[c] : c \in DOMAIN all_values} :
        \A c \in DOMAIN all_values : all_values[c] <= v

RowMin(all_values) ==
    CHOOSE v \in {all_values[c] : c \in DOMAIN all_values} :
        \A c \in DOMAIN all_values : v <= all_values[c]

\* argmax / argmin: the first column holding the value
FirstColumnOf(all_values, v) ==
    CHOOSE c \in DOMAIN all_values :
        /\ all_values[c] = v
        /\ \A d \in 1..(c - 1) : all_values[d] # v

\* sum(all_values < inner + ms90) with ms90 = 90 * samplingrate / 1000
near_inner(all_values, fs) ==
    Cardinality({c \in DOMAIN all_values :
                    1000 * all_values[c] < 1000 * RowMin(all_values) + 90 * fs})

\* sum(all_values > outer - ms90)
near_outer(all_values, fs) ==
    Cardinality({c \in DOMAIN all_values :
                    1000 * all_values[c] > 1000 * RowMax(all_values) - 90 * fs})

\* the k-th smallest value of the row
KthSmallest(all_values, k) ==
    CHOOSE v \in {all_values[c] : c \in DOMAIN all_values} :
        /\ Cardinality({c \in DOMAIN all_values : all_values[c] < v}) < k
        /\ Cardinality({c \in DOMAIN all_values : all_values[c] <= v}) >= k

\* scipy.median converted to a whole number: int(...) in the list of
\* results, the cast of the assignment into the integer matrix
MedianAsInt(all_values) ==
    LET n == Len(all_values)
    IN  TruncDiv(KthSmallest(all_values, (n + 1) \div 2)
                     + KthSmallest(all_values, n \div 2 + 1), 2)

\* peaks[current_peak+1:Npeaks, lead] = peaks[current_peak:Npeaks-1, lead]
\* peaks[current_peak, lead] = median
ShiftDown(matrix, row, lead, median) ==
    [r \in DOMAIN matrix |->
        [c \in DOMAIN matrix[r] |->
            IF c # lead \/ r - 1 < row THEN matrix[r][c]
            ELSE IF r - 1 = row THEN median
            ELSE matrix[r - 1][c]]]

\* peaks[current_peak:Npeaks-1, lead] = peaks[current_peak+1:Npeaks, lead]
\* peaks[-1, lead] = 0
ShiftUp(matrix, row, lead) ==
    [r \in DOMAIN matrix |->
        [c \in DOMAIN matrix[r] |->
            IF c # lead \/ r - 1 < row THEN matrix[r][c]
            ELSE IF r = Len(matrix) THEN 0
            ELSE matrix[r + 1][c]]]

\* the reconciliation reads the detector's sampling rate only; what the runs
\* over the leads left in the buffers stays as it is
DetectionUntouched ==
    UNCHANGED <<ecgdata, samplingrate, points, leads, data, qrslead, int_ecg,
                signal_peak_buffer, noise_peak_buffer, rr_buffer, threshold,
                peaks, index, calls, tvars>>

\* the zero padding, the matrix, and the entry of multilead_peak_match
qrs_detect_multiple_leads_call ==
    /\ pc = "detected"
    /\ LET padded == [c \in DOMAIN qrspeaks |->
                         zeropad(qrspeaks[c], MaxLength(qrspeaks))]
       IN  /\ qrspeaks' = padded
           /\ qrspeaks_array' = Transposed(padded)
    /\ current_peak' = 0
    /\ unique_peaks' = <<>>
    /\ iteration' = 0
    /\ pc' = "match"
    /\ UNCHANGED QRSpeaks
    /\ DetectionUntouched

\* one iteration of the while loop: all are within 90 ms
all_within_90ms ==
    /\ pc = "match"
    /\ current_peak < Len(qrspeaks_array)
    /\ LET all_values == qrspeaks_array[current_peak + 1]
       IN  /\ near_inner(all_values, samplingrate) = Len(all_values)
           /\ near_outer(all_values, samplingrate) = Len(all_values)
           /\ unique_peaks' = Append(unique_peaks, MedianAsInt(all_values))
    /\ current_peak' = current_peak + 1
    /\ iteration' = 1 - iteration
    /\ UNCHANGED <<qrspeaks, qrspeaks_array, QRSpeaks, pc>>
    /\ DetectionUntouched

\* one iteration of the while loop: max is wrong
max_is_wrong ==
    /\ pc = "match"
    /\ current_peak < Len(qrspeaks_array)
    /\ LET all_values == qrspeaks_array[current_peak + 1]
           outerlead == FirstColumnOf(all_values, RowMax(all_values))
       IN  /\ ~(/\ near_inner(all_values, samplingrate) = Len(all_values)
                /\ near_outer(all_values, samplingrate) = Len(all_values))
           /\ near_inner(all_values, samplingrate)
                  > near_outer(all_values, samplingrate)
           /\ qrspeaks_array' = ShiftDown(qrspeaks_array, current_peak,
                                          outerlead, MedianAsInt(all_values))
    /\ iteration' = 1 - iteration
    /\ UNCHANGED <<qrspeaks, current_peak, unique_peaks, QRSpeaks, pc>>
    /\ DetectionUntouched

\* one iteration of the while loop: min is wrong
min_is_wrong ==
    /\ pc = "match"
    /\ current_peak < Len(qrspeaks_array)
    /\ LET all_values == qrspeaks_array[current_peak + 1]
           innerlead == FirstColumnOf(all_values, RowMin(all_values))
       IN  /\ ~(/\ near_inner(all_values, samplingrate) = Len(all_values)
                /\ near_outer(all_values, samplingrate) = Len(all_values))
           /\ near_inner(all_values, samplingrate)
                  <= near_outer(all_values, samplingrate)
           /\ qrspeaks_array' = ShiftUp(qrspeaks_array, current_peak, innerlead)
    /\ iteration' = 1 - iteration
    /\ UNCHANGED <<qrspeaks, current_peak, unique_peaks, QRSpeaks, pc>>
    /\ DetectionUntouched

\* the loop ends: self.QRSpeaks = unique_peaks, returned
multilead_peak_match_return ==
    /\ pc = "match"
    /\ current_peak >= Len(qrspeaks_array)
    /\ QRSpeaks' = unique_peaks
    /\ pc' = "done"
    /\ UNCHANGED <<qrspeaks, qrspeaks_array, current_peak, unique_peaks,
                   iteration>>
    /\ DetectionUntouched

InitML ==
    /\ samplingrate = 50
    /\ points = BufLen * samplingrate
    /\ qrspeaks \in LeadDetections
    /\ leads = Len(qrspeaks)
    /\ data = <<>>
    /\ ecgdata = [ndim |-> 2, rows |-> points, cols |-> leads]
    /\ qrslead = leads - 1
    /\ int_ecg = <<>>
    /\ signal_peak_buffer = <<>>
    /\ noise_peak_buffer = <<>>
    /\ rr_buffer = <<>>
    /\ threshold = 0
    /\ peaks = <<>>
    /\ index = 0
    /\ QRSpeaks = qrspeaks[leads]
    /\ calls = leads
    /\ qrspeaks_array = <<>>
    /\ current_peak = 0
    /\ unique_peaks = <<>>
    /\ iteration = 0
    /\ NoTimeCall
    /\ pc = "detected"

NextML ==
    \/ qrs_detect_multiple_leads_call
    \/ all_within_90ms
    \/ max_is_wrong
    \/ min_is_wrong
    \/ multilead_peak_match_return

SpecML == InitML /\ [][NextML]_vars

\* the loop is the only thing running: an iteration that can be made is made
FairML == SpecML /\ WF_vars(NextML)

-----------------------------------------------------------------------------
(* Properties of the detection run *)

\* strictly increasing, every two consecutive indices at least
\* 0.2 * samplingrate apart
Spaced(q, fs) ==
    \A i \in 1..(Len(q) - 1) : q[i] < q[i + 1] /\ 5 * (q[i + 1] - q[i]) >= fs

\* strictly increasing, every two consecutive indices at least
\* int(0.2 * samplingrate) apart, the refractory distance in whole samples
SpacedWhole(q, fs) ==
    \A i \in 1..(Len(q) - 1) : q[i] < q[i + 1] /\ q[i + 1] - q[i] >= fs \div 5

C2_ThresholdCurrent ==
    (pc = "checkPeaks" /\ index < Len(peaks) - 1)
        => threshold = updateThreshold(signal_peak_buffer, noise_peak_buffer)

\* C5: on a trace without a strict local maximum the run raises nothing and
\* returns an empty heartbeat sequence; and a run whose candidate list is
\* empty returns an empty heartbeat sequence.
C5_DegenerateIsEmpty ==
    /\ (pc \in {"error", "peaks", "checkPeaks", "classified", "done"}
            /\ PeakIndices(int_ecg) = <<>>)
        => pc # "error"
    /\ (pc = "done" /\ (PeakIndices(int_ecg) = <<>> \/ Len(peaks) = 1))
        => QRSpeaks = <<>>

\* C7: a call of qrs_detect on a detector that has been used before ends as
\* the same call on a new detector does: it returns the same sequence, or
\* raises as well.
C7_RunsAreIndependent ==
    LET fresh == qrs_detect(NoStats, Integrated(At(data, qrslead), points),
                            samplingrate)
    IN  /\ pc = "done" => (~fresh.raised /\ QRSpeaks = fresh.value)
        /\ pc = "error" => fresh.raised

\* a second call on the same detector has returned heartbeats
C7_Witness ==
    /\ pc = "done"
    /\ calls >= 2
    /\ Len(QRSpeaks) >= 2
    /\ SumSeq(noise_peak_buffer) > 0

\* the rule of C9 for the candidate about to be classified
C9_Heartbeat ==
    LET peak == At(peaks, index)
        amplitude == At(int_ecg, peak)
        next == At(peaks, index + 1)
        last == QRSpeaks[Len(QRSpeaks)]
    IN  \/ 128 * amplitude > threshold
        \/ /\ 256 * amplitude >= threshold
           /\ 1000 * (peak - last) > 360 * samplingrate
           /\ 2 * BufLen * (next - last) > 3 * SumSeq(rr_buffer)

C9_LastWasBorderline ==
    /\ pc = "checkPeaks"
    /\ index >= 1
    /\ 128 * At(int_ecg, At(peaks, index - 1)) <= threshold
    /\ 256 * At(int_ecg, At(peaks, index - 1)) >= threshold

C10_ExpectedRR ==
    LET q == Tail(QRSpeaks)
        all == [k \in 1..BufLen |-> 1]
                   \o [i \in 1..(Len(q) - 1) |-> q[i + 1] - q[i]]
    IN  SubSeq(all, Len(all) - BufLen + 1, Len(all))

\* C10: during classification the RR buffer holds seed values and true
\* inter-beat distances only: the first accepted heartbeat leaves it
\* unchanged, every later one pushes its distance to the previous heartbeat.
C10_OnlyTrueIntervals ==
    pc = "checkPeaks" => rr_buffer = C10_ExpectedRR

\* the distance between two sample indices
Distance(a, b) == IF a >= b THEN a - b ELSE b - a

\* C11: peakDetect drops no group of maxima: every strict local maximum of
\* the integrated signal is returned or lies within the refractory distance
\* of a returned peak, the candidate held at the end of the scan included.
C11_NoGroupDropped ==
    pc = "peaks" =>
        LET peak_indices == PeakIndices(int_ecg)
        IN  \A k \in DOMAIN peak_indices :
                \E i \in DOMAIN peaks :
                    WithinMinimumRR(Distance(peak_indices[k], peaks[i]),
                                    samplingrate)

\* C12: no peak returned by peakDetect has another strict local maximum of
\* strictly greater amplitude within the refractory distance on either side
\* of it.
C12_LargestRetained ==
    pc = "peaks" =>
        LET peak_indices == PeakIndices(int_ecg)
        IN  \A i \in DOMAIN peaks : \A k \in DOMAIN peak_indices :
                WithinMinimumRR(Distance(peak_indices[k], peaks[i]),
                                samplingrate)
                    => At(int_ecg, peak_indices[k]) <= At(int_ecg, peaks[i])

\* the buffer after is the buffer before without its oldest value, the
\* other values in order, followed by the new value
FIFO(before, after, value) == after = Append(Tail(before), value)

\* C13: in every state of a detection run the signal-peak, noise-peak and
\* RR buffers hold exactly 8 values each, and every accept is a FIFO update
\* of the buffers it touches: acceptasQRS pushes the amplitude to the
\* signal-peak buffer and the distance to the previous heartbeat to the RR
\* buffer, acceptasNoise pushes the amplitude to the noise-peak buffer and
\* changes nothing else.
C13_BuffersAreFIFO ==
    /\ [](pc \in {"peakDetect", "peaks", "checkPeaks", "classified",
                  "done", "error"}
            => /\ Len(signal_peak_buffer) = BufLen
               /\ Len(noise_peak_buffer) = BufLen
               /\ Len(rr_buffer) = BufLen)
    /\ [][(pc = "checkPeaks" /\ index' = index + 1) =>
            LET peak == At(peaks, index)
                amplitude == At(int_ecg, peak)
            IN  \/ /\ QRSpeaks' = Append(QRSpeaks, peak)
                   /\ FIFO(signal_peak_buffer, signal_peak_buffer', amplitude)
                   /\ FIFO(rr_buffer, rr_buffer',
                           peak - QRSpeaks[Len(QRSpeaks)])
                   /\ noise_peak_buffer' = noise_peak_buffer
                \/ /\ QRSpeaks' = QRSpeaks
                   /\ FIFO(noise_peak_buffer, noise_peak_buffer', amplitude)
                   /\ signal_peak_buffer' = signal_peak_buffer
                   /\ rr_buffer' = rr_buffer]_vars

\* both kinds of accept have acted: two heartbeats are accepted and a noise
\* peak has been pushed since
C13_Witness ==
    /\ pc = "checkPeaks"
    /\ Len(QRSpeaks) >= 3
    /\ noise_peak_buffer[BufLen] > 0
    /\ signal_peak_buffer[BufLen] = At(int_ecg, QRSpeaks[Len(QRSpeaks)])

\* C14: every index returned by qrs_detect is a sample index of the
\* recording, 0 <= index < points, also after the delay compensation.
C14_IndicesInRecording ==
    pc = "done" =>
        \A i \in DOMAIN QRSpeaks : 0 <= QRSpeaks[i] /\ QRSpeaks[i] < points

-----------------------------------------------------------------------------
(* Properties of the constructor and of the time formatting *)

\* C6: the constructor raises ValueError exactly when the lead count exceeds
\* the point count or there are fewer than 8 * samplingrate points, a vector
\* counting as points x 1; otherwise it succeeds with points and leads the
\* rows and columns of the array; either way it creates no detection state.
C6_ConstructorValidation ==
    pc \in {"ready", "ValueError"} =>
        LET rows == ecgdata.rows
            cols == IF ecgdata.ndim = 1 THEN 1 ELSE ecgdata.cols
        IN  /\ pc = "ValueError" <=> (cols > rows \/ rows < 8 * samplingrate)
            /\ pc = "ready" => (points = rows /\ leads = cols)
            /\ NoDetection

\* a vector of exactly 8 seconds has been accepted
C6_Witness ==
    /\ pc = "ready"
    /\ ecgdata.ndim = 1
    /\ points = 8 * samplingrate
    /\ leads = 1

\* the time in ms a formatting call is about
TimeMs ==
    IF time_call[1] = "_format_time_wfdb" THEN time_call[2]
    ELSE (time_call[2] * 1000) \div samplingrate

\* C8: the string returned for a non-negative time is the 12 characters
\* HH:MM:SS.mmm, with HH = (ms div 3600000) mod 24, MM = (ms div 60000) mod 60,
\* SS = (ms div 1000) mod 60, mmm = ms mod 1000, every field zero-padded.
C8_TimeFormat ==
    pc = "formatted" =>
        /\ Len(time_string) = 12
        /\ time_string =
               ZeroPadded((TimeMs \div 3600000) % 24, 2) \o <<":">>
                   \o ZeroPadded((TimeMs \div 60000) % 60, 2) \o <<":">>
                   \o ZeroPadded((TimeMs \div 1000) % 60, 2) \o <<".">>
                   \o ZeroPadded(TimeMs % 1000, 3)

-----------------------------------------------------------------------------
(* Properties of the multi-lead reconciliation *)

\* C3: multilead_peak_match converges: for every matrix built from strictly
\* increasing per-lead lists, zero-padded to the longest, the loop reaches
\* current_peak = number of rows after finitely many iterations and the
\* consensus is returned; no row is retried forever
C3_Converges == <>(pc = "done")

\* the smallest sample index any lead detected
FirstDetection ==
    CHOOSE v \in {BeatAt[k] + j : k \in DOMAIN BeatAt, j \in Jitter} :
        /\ \E c \in DOMAIN qrspeaks : \E r \in DOMAIN qrspeaks[c] :
               qrspeaks[c][r] = v
        /\ \A c \in DOMAIN qrspeaks : \A r \in DOMAIN qrspeaks[c] :
               qrspeaks[c][r] = 0 \/ qrspeaks[c][r] >= v

\* C4: whenever multilead_peak_match returns, the consensus is strictly
\* increasing (no value is less than or equal to its predecessor) and no
\* value comes from zero-fill cells: none lies below every real detection
C4_ConsensusIncreasing ==
    pc = "done" =>
        /\ \A i \in 1..(Len(unique_peaks) - 1) :
               unique_peaks[i] < unique_peaks[i + 1]
        /\ \A i \in DOMAIN unique_peaks : unique_peaks[i] >= FirstDetection

====
